---- MODULE Spec2Model ----
(***************************************************************************)
(* Model of ternary/lines.py: the line-drawing helpers of python-ternary.  *)
(* The drawing surface `ax` is the list of Line2D objects added to it;     *)
(* `drawn` logs the arguments of every call of line(); `heap` holds the    *)
(* caller's dict objects (index = object identity, 0 = None).              *)
(* Numbers are integers: numpy.arange is modelled on integer arguments     *)
(* (the float step 1. of gridlines has the same values as the integer 1).  *)
(***************************************************************************)
EXTENDS Integers, Sequences, FiniteSets, TLC

VARIABLES ax, drawn, heap, call, ret, pre

vars == <<ax, drawn, heap, call, ret, pre>>

(* ------------------------------ bounds --------------------------------- *)
MaxScale == 4
MaxMultiple == 3
MaxIndex == 3
MaxOffset == 1
MaxAxisLen == 3
MaxCoord == 1

(* ------------------------------ values --------------------------------- *)
None == <<>>

EmptyDict == <<>>

\* The dict objects the caller owns; heap[k] is the content of object k.
StyleSeq ==
  << EmptyDict,
     [linewidth |-> "2"],
     [linestyle |-> "-", color |-> "k"],
     [color |-> "b"] >>

Styles == {StyleSeq[k] : k \in 1..Len(StyleSeq)}

Refs == 0..Len(StyleSeq)

Points == {<<a, b, c>> : a \in 0..MaxCoord, b \in 0..MaxCoord, c \in 0..MaxCoord}

Triples == {<<a, b, c>> : a \in 0..2, b \in 0..2, c \in 0..2}

PermutationArgs ==
  {None} \cup {q \in Triples : Cardinality({q[1], q[2], q[3]}) = 3}

AxisChars == {"l", "r", "b", "L", "R", "x"}

RECURSIVE SeqsUpTo(_, _)
SeqsUpTo(S, n) ==
  IF n = 0 THEN {<<>>}
  ELSE LET shorter == SeqsUpTo(S, n - 1)
       IN  shorter \cup {Append(s, c) : s \in shorter, c \in S}

Selectors == SeqsUpTo(AxisChars, MaxAxisLen)

(* --------------------------- external parts ---------------------------- *)
\* helpers.project_point is outside this module: its two Cartesian
\* coordinates are uninterpreted terms of the point and the permutation.
project_point(p, permutation) ==
  << <<"x", p, permutation>>, <<"y", p, permutation>> >>

\* matplotlib.lines.Line2D(xdata, ydata, **kwargs)
Line2D(xdata, ydata, kwargs) ==
  [xdata |-> xdata, ydata |-> ydata, kwargs |-> kwargs]

\* An arange whose stop is included.
arange_inclusive(start, stop, step) ==
  LET n == IF stop - start < 0 THEN 0
           ELSE (stop - start) \div step + 1
  IN  [k \in 1..n |-> start + (k - 1) * step]

\* numpy.arange(start, stop, step) for integers and step > 0
arange(start, stop, step) ==
  LET n == IF stop - start <= 0 THEN 0
           ELSE (stop - start + step - 1) \div step
  IN  [k \in 1..n |-> start + (k - 1) * step]

(* ------------------------------- lines --------------------------------- *)
\* A line that forgets the permutation of its second point.
line_unpermuted(st, p1, p2, permutation, kwargs) ==
  LET pp1 == project_point(p1, permutation)
      pp2 == project_point(p2, None)
  IN  [ax    |-> Append(st.ax, Line2D(<<pp1[1], pp2[1]>>, <<pp1[2], pp2[2]>>, kwargs)),
       drawn |-> Append(st.drawn, [p1 |-> p1, p2 |-> p2,
                                   permutation |-> permutation, kwargs |-> kwargs])]

\* st = [ax, drawn]: the surface and the log of line() calls
line(st, p1, p2, permutation, kwargs) ==
  LET pp1 == project_point(p1, permutation)
      pp2 == project_point(p2, permutation)
  IN  [ax    |-> Append(st.ax, Line2D(<<pp1[1], pp2[1]>>, <<pp1[2], pp2[2]>>, kwargs)),
       drawn |-> Append(st.drawn, [p1 |-> p1, p2 |-> p2,
                                   permutation |-> permutation, kwargs |-> kwargs])]

horizontal_line(st, scale, i, kwargs) ==
  line(st, <<0, scale - i, i>>, <<scale - i, 0, i>>, None, kwargs)

left_parallel_line(st, scale, i, kwargs) ==
  line(st, <<0, i, scale - i>>, <<scale - i, i, 0>>, None, kwargs)

right_parallel_line(st, scale, i, kwargs) ==
  line(st, <<i, scale - i, 0>>, <<i, 0, scale - i>>, None, kwargs)

\* A boundary that draws the horizontal edge in place of the right one.
boundary_twice(st, scale, kwargs) ==
  horizontal_line(
    left_parallel_line(
      horizontal_line(st, scale, 0, kwargs), scale, 0, kwargs), scale, 0, kwargs)

boundary(st, scale, kwargs) ==
  right_parallel_line(
    left_parallel_line(
      horizontal_line(st, scale, 0, kwargs), scale, 0, kwargs), scale, 0, kwargs)

(* ------------------------------- dicts --------------------------------- *)
\* Python truth value of the object reference r: None and {} are false
Truthy(h, r) == r # 0 /\ DOMAIN h[r] # {}

\* dict(): a new empty dict object
dict_new(h) == [heap |-> Append(h, EmptyDict), ref |-> Len(h) + 1]

\* A copy that is no copy: the "new" reference aliases the old object.
dict_alias(h, r) == [heap |-> h, ref |-> r]

\* d.copy(): a new object with the content of object r
dict_copy(h, r) == [heap |-> Append(h, h[r]), ref |-> Len(h) + 1]

\* An update in which the keys already present keep their value.
dict_update_keep(z, updates) ==
  [k \in DOMAIN z \cup DOMAIN updates |->
      IF k \in DOMAIN z THEN z[k] ELSE updates[k]]

\* the content of z after z.update(updates)
dict_update(z, updates) ==
  [k \in DOMAIN z \cup DOMAIN updates |->
      IF k \in DOMAIN updates THEN updates[k] ELSE z[k]]

\* merge_dicts(base, updates) on object references; returns the heap after
\* the call and the reference of the returned dict
merge_dicts(h, base, updates) ==
  LET b  == IF Truthy(h, base) THEN [heap |-> h, ref |-> base] ELSE dict_new(h)
      u  == IF Truthy(b.heap, updates) THEN [heap |-> b.heap, ref |-> updates]
            ELSE dict_new(b.heap)
      z  == dict_copy(u.heap, b.ref)
  IN  [heap |-> [z.heap EXCEPT ![z.ref] = dict_update(z.heap[z.ref], z.heap[u.ref])],
       ret  |-> z.ref]

(* ----------------------------- gridlines ------------------------------- *)
\* d[key] = value
dict_setitem(d, key, value) ==
  [k \in DOMAIN d \cup {key} |-> IF k = key THEN value ELSE d[k]]

\* Defaults that replace what the caller supplied.
default_kwargs_always(kwargs) ==
  dict_setitem(dict_setitem(kwargs, "linewidth", "0.5"), "linestyle", ":")

\* the defaults of gridlines: linewidth 0.5 and linestyle ':' when absent
default_kwargs(kwargs) ==
  LET k1 == IF "linewidth" \notin DOMAIN kwargs
            THEN dict_setitem(kwargs, "linewidth", "0.5") ELSE kwargs
  IN  IF "linestyle" \notin DOMAIN k1
      THEN dict_setitem(k1, "linestyle", ":") ELSE k1

\* `if not multiple: multiple = 1.`; multiple is None (<<>>) or <<m>>
default_multiple(multiple) ==
  IF multiple = None \/ multiple[1] = 0 THEN 1 ELSE multiple[1]

\* for i in arange(0, scale, multiple): horizontal_line(...)
RECURSIVE horizontal_loop(_, _, _, _, _)
horizontal_loop(st, scale, is, k, kwargs) ==
  IF k > Len(is) THEN st
  ELSE horizontal_loop(horizontal_line(st, scale, is[k], kwargs), scale, is, k + 1, kwargs)

\* for i in arange(0, scale + multiple, multiple): left..., right...
RECURSIVE parallel_loop(_, _, _, _, _, _)
parallel_loop(st, scale, is, k, left_kwargs, right_kwargs) ==
  IF k > Len(is) THEN st
  ELSE parallel_loop(
         right_parallel_line(
           left_parallel_line(st, scale, is[k], left_kwargs),
           scale, is[k], right_kwargs),
         scale, is, k + 1, left_kwargs, right_kwargs)

\* gridlines; h is the caller's heap, the three *_kwargs are references
\* into it (0 = None), kwargs is the dict Python builds for **kwargs.
gridlines(st, h, scale, multiple, horizontal_kwargs, left_kwargs, right_kwargs, kwargs) ==
  LET h0  == Append(h, default_kwargs(kwargs))
      kw  == Len(h0)
      mh  == merge_dicts(h0, kw, horizontal_kwargs)
      ml  == merge_dicts(mh.heap, kw, left_kwargs)
      mr  == merge_dicts(ml.heap, kw, right_kwargs)
      hf  == mr.heap
      m   == default_multiple(multiple)
      st1 == horizontal_loop(st, scale, arange(0, scale, m), 1, hf[mh.ret])
      st2 == parallel_loop(st1, scale, arange(0, scale + m, m), 1, hf[ml.ret], hf[mr.ret])
  IN  [st |-> st2, heap |-> SubSeq(hf, 1, Len(h))]

(* ------------------------------- ticks --------------------------------- *)
LowerChar(c) ==
  CASE c = "L" -> "l"
    [] c = "R" -> "r"
    [] c = "B" -> "b"
    [] c = "X" -> "x"
    [] OTHER -> c

\* A lower() that leaves the selector as it is.
lower_identity(axis) == axis

\* axis.lower()
lower(axis) == [k \in 1..Len(axis) |-> LowerChar(axis[k])]

\* A validation that looks at the first character only.
valid_axis_first(axis) == Len(axis) = 0 \/ axis[1] \in {"l", "r", "b"}

\* set(axis).issubset(set(['l', 'r', 'b']))
valid_axis(axis) == {axis[k] : k \in 1..Len(axis)} \subseteq {"l", "r", "b"}

\* 'r' in axis
char_in(c, axis) == \E k \in 1..Len(axis) : axis[k] = c

\* <<loc1, loc2>> of the tick at index i of a side
tick_locs(side, scale, i, offset, clockwise) ==
  CASE side = "r" ->
         << <<scale - i, i, 0>>,
            IF clockwise THEN <<scale - i, i + offset * scale, 0>>
            ELSE <<scale - i + offset * scale, i, 0>> >>
    [] side = "l" ->
         << <<0, i, 0>>,
            IF clockwise THEN <<-offset * scale, i, 0>>
            ELSE <<-offset * scale, i + offset * scale, 0>> >>
    [] side = "b" ->
         << <<i, 0, 0>>,
            IF clockwise THEN <<i + offset * scale, -offset * scale, 0>>
            ELSE <<i, -offset * scale, 0>> >>

\* if side in axis: for i in arange(0, scale + multiple, multiple): line(...)
RECURSIVE tick_loop(_, _, _, _, _, _, _, _)
tick_loop(st, side, scale, is, k, offset, clockwise, kwargs) ==
  IF k > Len(is) THEN st
  ELSE LET locs == tick_locs(side, scale, is[k], offset, clockwise)
       IN  tick_loop(line(st, locs[1], locs[2], None, kwargs),
                     side, scale, is, k + 1, offset, clockwise, kwargs)

side_ticks(st, side, axis, scale, multiple, offset, clockwise, kwargs) ==
  IF char_in(side, axis)
  THEN tick_loop(st, side, scale, arange(0, scale + multiple, multiple), 1,
                 offset, clockwise, kwargs)
  ELSE st

\* ticks; the locals `ticks` and `locations` (lines 187-189) are assigned
\* and never read, so they are not part of the result.
ticks(st, scale, multiple, axis, offset, clockwise, kwargs) ==
  LET axis_l == lower(axis) IN
  IF ~valid_axis(axis_l)
  THEN [st |-> st, ret |-> "ValueError"]
  ELSE LET r == side_ticks(st, "r", axis_l, scale, multiple, offset, clockwise, kwargs)
           l == side_ticks(r, "l", axis_l, scale, multiple, offset, clockwise, kwargs)
           b == side_ticks(l, "b", axis_l, scale, multiple, offset, clockwise, kwargs)
       IN  [st |-> b, ret |-> "None"]

(* ------------------------------ state ---------------------------------- *)
PriorLine == line([ax |-> <<>>, drawn |-> <<>>], <<1, 0, 0>>, <<0, 1, 0>>, None, EmptyDict)

PriorSurfaces == {[ax |-> <<>>, drawn |-> <<>>], PriorLine}

NoCall == [op |-> "none"]

RetNone == [kind |-> "None", ref |-> 0]
RetAx == [kind |-> "ax", ref |-> 0]

Init ==
  /\ \E st \in PriorSurfaces :
          /\ ax = st.ax
          /\ drawn = st.drawn
          /\ pre = [ax |-> st.ax, drawn |-> st.drawn, heap |-> StyleSeq]
  /\ heap = StyleSeq
  /\ call = NoCall
  /\ ret = RetNone

Cur == [ax |-> ax, drawn |-> drawn]

Enter ==
  pre' = [ax |-> ax, drawn |-> drawn, heap |-> heap]

Idle == call = NoCall

Line ==
  /\ Idle
  /\ \E p1 \in Points, p2 \in Points, permutation \in PermutationArgs, kwargs \in Styles :
      LET st == line(Cur, p1, p2, permutation, kwargs) IN
      /\ Enter
      /\ ax' = st.ax
      /\ drawn' = st.drawn
      /\ call' = [op |-> "line", p1 |-> p1, p2 |-> p2,
                  permutation |-> permutation, kwargs |-> kwargs]
      /\ ret' = RetNone
      /\ UNCHANGED heap

HorizontalLine ==
  /\ Idle
  /\ \E scale \in 1..MaxScale, i \in 0..MaxIndex, kwargs \in Styles :
      LET st == horizontal_line(Cur, scale, i, kwargs) IN
      /\ Enter
      /\ ax' = st.ax
      /\ drawn' = st.drawn
      /\ call' = [op |-> "horizontal_line", scale |-> scale, i |-> i, kwargs |-> kwargs]
      /\ ret' = RetNone
      /\ UNCHANGED heap

LeftParallelLine ==
  /\ Idle
  /\ \E scale \in 1..MaxScale, i \in 0..MaxIndex, kwargs \in Styles :
      LET st == left_parallel_line(Cur, scale, i, kwargs) IN
      /\ Enter
      /\ ax' = st.ax
      /\ drawn' = st.drawn
      /\ call' = [op |-> "left_parallel_line", scale |-> scale, i |-> i, kwargs |-> kwargs]
      /\ ret' = RetNone
      /\ UNCHANGED heap

RightParallelLine ==
  /\ Idle
  /\ \E scale \in 1..MaxScale, i \in 0..MaxIndex, kwargs \in Styles :
      LET st == right_parallel_line(Cur, scale, i, kwargs) IN
      /\ Enter
      /\ ax' = st.ax
      /\ drawn' = st.drawn
      /\ call' = [op |-> "right_parallel_line", scale |-> scale, i |-> i, kwargs |-> kwargs]
      /\ ret' = RetNone
      /\ UNCHANGED heap

Boundary ==
  /\ Idle
  /\ \E scale \in 1..MaxScale, kwargs \in Styles :
      LET st == boundary(Cur, scale, kwargs) IN
      /\ Enter
      /\ ax' = st.ax
      /\ drawn' = st.drawn
      /\ call' = [op |-> "boundary", scale |-> scale, kwargs |-> kwargs]
      /\ ret' = RetAx
      /\ UNCHANGED heap

MergeDicts ==
  /\ Idle
  /\ \E base \in Refs, updates \in Refs :
      LET m == merge_dicts(heap, base, updates) IN
      /\ Enter
      /\ heap' = m.heap
      /\ ret' = [kind |-> "dict", ref |-> m.ret]
      /\ call' = [op |-> "merge_dicts", base |-> base, updates |-> updates]
      /\ UNCHANGED <<ax, drawn>>

MultipleArgs == {None} \cup {<<m>> : m \in 0..MaxMultiple}

Gridlines ==
  /\ Idle
  /\ \E scale \in 1..MaxScale, multiple \in MultipleArgs,
       horizontal_kwargs \in Refs, left_kwargs \in Refs, right_kwargs \in Refs,
       kwargs \in Styles :
      LET g == gridlines(Cur, heap, scale, multiple,
                         horizontal_kwargs, left_kwargs, right_kwargs, kwargs) IN
      /\ Enter
      /\ ax' = g.st.ax
      /\ drawn' = g.st.drawn
      /\ heap' = g.heap
      /\ ret' = RetAx
      /\ call' = [op |-> "gridlines", scale |-> scale, multiple |-> multiple,
                  horizontal_kwargs |-> horizontal_kwargs, left_kwargs |-> left_kwargs,
                  right_kwargs |-> right_kwargs, kwargs |-> kwargs]

TickStyles == {StyleSeq[1], StyleSeq[2]}

Ticks ==
  /\ Idle
  /\ \E scale \in 1..MaxScale, multiple \in 1..MaxMultiple, axis \in Selectors,
       offset \in 0..MaxOffset, clockwise \in BOOLEAN, kwargs \in TickStyles :
      LET t == ticks(Cur, scale, multiple, axis, offset, clockwise, kwargs) IN
      /\ Enter
      /\ ax' = t.st.ax
      /\ drawn' = t.st.drawn
      /\ ret' = [kind |-> t.ret, ref |-> 0]
      /\ call' = [op |-> "ticks", scale |-> scale, multiple |-> multiple, axis |-> axis,
                  offset |-> offset, clockwise |-> clockwise, kwargs |-> kwargs]
      /\ UNCHANGED heap

Next ==
  \/ Line
  \/ HorizontalLine
  \/ LeftParallelLine
  \/ RightParallelLine
  \/ Boundary
  \/ MergeDicts
  \/ Gridlines
  \/ Ticks

Spec == Init /\ [][Next]_vars

(* ------------------------------ claims --------------------------------- *)
\* what the last call added to the log of line() calls and to the surface
NewDrawn == SubSeq(drawn, Len(pre.drawn) + 1, Len(drawn))
NewAx == SubSeq(ax, Len(pre.ax) + 1, Len(ax))

\* the call kept what was on the surface before it
KeptPrior ==
  /\ Len(ax) >= Len(pre.ax)
  /\ SubSeq(ax, 1, Len(pre.ax)) = pre.ax
  /\ Len(drawn) >= Len(pre.drawn)
  /\ SubSeq(drawn, 1, Len(pre.drawn)) = pre.drawn

\* {k * m : k >= 0, k * m < limit}
IndexSet(limit, m) == {i \in 0..limit : i % m = 0 /\ i < limit}

\* how many of the new line() calls go from a to b
CountSegment(a, b) ==
  Cardinality({k \in 1..Len(NewDrawn) : NewDrawn[k].p1 = a /\ NewDrawn[k].p2 = b})

\* C1: one call of line appends exactly one segment to the surface; its
\* endpoints are project(p1, permutation) and project(p2, permutation) in
\* that order and its style options are the ones given.
C1_LineAppendsProjectedSegment ==
  call.op = "line" =>
    LET q1 == project_point(call.p1, call.permutation)
        q2 == project_point(call.p2, call.permutation)
    IN  /\ KeptPrior
        /\ Len(NewAx) = 1
        /\ NewAx[1].xdata = <<q1[1], q2[1]>>
        /\ NewAx[1].ydata = <<q1[2], q2[2]>>
        /\ NewAx[1].kwargs = call.kwargs

C1_Witness ==
  /\ call.op = "line"
  /\ call.permutation = <<2, 0, 1>>
  /\ call.p1 = <<1, 0, 0>>
  /\ call.p2 = <<0, 1, 1>>
  /\ DOMAIN call.kwargs = {"linewidth"}
  /\ Len(ax) = 2

Vertices(scale) == {<<0, scale, 0>>, <<scale, 0, 0>>, <<0, 0, scale>>}

NoSurface == [ax |-> <<>>, drawn |-> <<>>]

\* C2: boundary appends exactly 3 segments and returns the surface; each
\* segment joins two vertices of the simplex, the 3 segments are pairwise
\* distinct edges, and they are the segments of horizontal_line,
\* left_parallel_line and right_parallel_line at i = 0.
C2_BoundaryDrawsThreeEdges ==
  call.op = "boundary" =>
    LET s == call.scale
        new == NewDrawn
        edge(k) == {new[k].p1, new[k].p2}
    IN  /\ KeptPrior
        /\ ret.kind = "ax"
        /\ Len(NewAx) = 3
        /\ Len(new) = 3
        /\ \A k \in 1..3 :
             /\ new[k].p1 \in Vertices(s)
             /\ new[k].p2 \in Vertices(s)
             /\ new[k].p1 # new[k].p2
        /\ \A j \in 1..3 : \A k \in 1..3 : j # k => edge(j) # edge(k)
        /\ NewAx = << horizontal_line(NoSurface, s, 0, call.kwargs).ax[1],
                      left_parallel_line(NoSurface, s, 0, call.kwargs).ax[1],
                      right_parallel_line(NoSurface, s, 0, call.kwargs).ax[1] >>

C2_Witness ==
  /\ call.op = "boundary"
  /\ call.scale = 3
  /\ Len(pre.ax) = 1
  /\ Len(ax) = 4
  /\ drawn[4].p1 = <<0, 3, 0>>
  /\ drawn[4].p2 = <<0, 0, 3>>

\* C3: merge_dicts returns a new dict whose keys are those of base and of
\* updates, with the value of updates where updates has the key and the
\* value of base elsewhere (None counts as the empty dict); the dicts that
\* existed before the call are unchanged and the result is none of them.
C3_MergeDictsNewMapping ==
  call.op = "merge_dicts" =>
    LET bv == IF call.base = 0 THEN EmptyDict ELSE pre.heap[call.base]
        uv == IF call.updates = 0 THEN EmptyDict ELSE pre.heap[call.updates]
        r  == ret.ref
    IN  /\ ret.kind = "dict"
        /\ r \in 1..Len(heap)
        /\ r \notin 1..Len(pre.heap)
        /\ r # call.base
        /\ DOMAIN heap[r] = DOMAIN bv \cup DOMAIN uv
        /\ \A k \in DOMAIN heap[r] :
             heap[r][k] = IF k \in DOMAIN uv THEN uv[k] ELSE bv[k]
        /\ \A o \in 1..Len(pre.heap) : heap[o] = pre.heap[o]

C3_Witness ==
  /\ call.op = "merge_dicts"
  /\ call.base = 3
  /\ call.updates = 4
  /\ heap[ret.ref] = [linestyle |-> "-", color |-> "b"]
  /\ heap[3] = [linestyle |-> "-", color |-> "k"]

\* the multiple gridlines is specified to use: 1 when absent or zero
GridMultiple ==
  IF call.multiple = None THEN 1
  ELSE IF call.multiple[1] = 0 THEN 1 ELSE call.multiple[1]

\* C4: gridlines draws exactly one horizontal segment
\* (0, scale-i, i)-(scale-i, 0, i) for each multiple i < scale, and exactly
\* one left segment (0, i, scale-i)-(scale-i, i, 0) and one right segment
\* (i, scale-i, 0)-(i, 0, scale-i) for each multiple i < scale + multiple,
\* and nothing else; the left and right families have one line more than
\* the horizontal one; an absent or zero multiple counts as 1.
C4_GridlinesFamilies ==
  call.op = "gridlines" =>
    LET s  == call.scale
        m  == GridMultiple
        IH == IndexSet(s, m)
        IP == IndexSet(s + m, m)
    IN  /\ KeptPrior
        /\ \A i \in IH : CountSegment(<<0, s - i, i>>, <<s - i, 0, i>>) = 1
        /\ \A i \in IP : CountSegment(<<0, i, s - i>>, <<s - i, i, 0>>) = 1
        /\ \A i \in IP : CountSegment(<<i, s - i, 0>>, <<i, 0, s - i>>) = 1
        /\ Len(NewDrawn) = Cardinality(IH) + 2 * Cardinality(IP)
        /\ Len(NewAx) = Len(NewDrawn)
        /\ Cardinality(IP) = Cardinality(IH) + 1

C4_Witness ==
  /\ call.op = "gridlines"
  /\ call.scale = 4
  /\ call.multiple = <<2>>
  /\ Len(NewDrawn) = 8
  /\ CountSegment(<<0, 4, 0>>, <<0, 4, 0>>) = 1
  /\ CountSegment(<<0, 0, 4>>, <<0, 0, 4>>) = 0

\* the three edges boundary draws, as unordered pairs of vertices
BoundaryEdges(scale) ==
  { {<<0, scale, 0>>, <<scale, 0, 0>>},
    {<<0, 0, scale>>, <<scale, 0, 0>>},
    {<<0, scale, 0>>, <<0, 0, scale>>} }

\* C5: gridlines draws interior gridlines only: no segment it issues
\* coincides with one of the three simplex edges that boundary draws.
C5_GridlinesExcludeBoundary ==
  call.op = "gridlines" =>
    \A k \in 1..Len(NewDrawn) :
      {NewDrawn[k].p1, NewDrawn[k].p2} \notin BoundaryEdges(call.scale)

\* the selector has a character that is none of l, r, b in either case
BadSelector(axis) ==
  \E k \in 1..Len(axis) : axis[k] \notin {"l", "r", "b", "L", "R", "B"}

\* C6: a selector with a character outside l, r, b (after lower-casing),
\* wherever it sits, makes ticks fail with ValueError with nothing drawn.
C6_TicksRejectsBadSelector ==
  (call.op = "ticks" /\ BadSelector(call.axis)) =>
    /\ ret.kind = "ValueError"
    /\ ax = pre.ax
    /\ drawn = pre.drawn

C6_Witness ==
  /\ call.op = "ticks"
  /\ call.axis = <<"b", "x", "r">>
  /\ ret.kind = "ValueError"
  /\ Len(ax) = 1
  /\ ax = pre.ax

\* the sides a valid selector names
SelectedSides(axis) ==
  { c \in {"r", "l", "b"} :
      \E k \in 1..Len(axis) :
        \/ axis[k] = c
        \/ (c = "r" /\ axis[k] = "R")
        \/ (c = "l" /\ axis[k] = "L")
        \/ (c = "b" /\ axis[k] = "B") }

\* the point on a side where the tick of index i starts
TickBase(side, scale, i) ==
  CASE side = "r" -> <<scale - i, i, 0>>
    [] side = "l" -> <<0, i, 0>>
    [] side = "b" -> <<i, 0, 0>>

\* C7: with a valid selector ticks succeeds and draws, on each side whose
\* letter occurs in the selector (in either case) and on no other side,
\* exactly one tick for each multiple i < scale + multiple, starting at
\* (scale-i, i, 0) on 'r', (0, i, 0) on 'l' and (i, 0, 0) on 'b'.
C7_TicksOnSelectedSides ==
  (call.op = "ticks" /\ ~BadSelector(call.axis)) =>
    LET s     == call.scale
        I     == IndexSet(s + call.multiple, call.multiple)
        sides == SelectedSides(call.axis)
        new   == NewDrawn
        bases == {TickBase(c, s, i) : c \in {"r", "l", "b"}, i \in I}
        starts == {new[k].p1 : k \in 1..Len(new)}
    IN  /\ KeptPrior
        /\ ret.kind = "None"
        /\ Len(new) = Cardinality(sides) * Cardinality(I)
        /\ Len(NewAx) = Len(new)
        /\ \A q \in bases \cup starts :
             Cardinality({k \in 1..Len(new) : new[k].p1 = q})
               = Cardinality({ci \in sides \X I : TickBase(ci[1], s, ci[2]) = q})

C7_Witness ==
  /\ call.op = "ticks"
  /\ call.axis = <<"L", "R">>
  /\ call.scale = 4
  /\ call.multiple = 2
  /\ Len(NewDrawn) = 6
  /\ NewDrawn[1].p1 = <<4, 0, 0>>
  /\ NewDrawn[6].p1 = <<0, 4, 0>>

\* the displacement of a tick and the parallelism of two displacements
Displacement(locs) ==
  <<locs[2][1] - locs[1][1], locs[2][2] - locs[1][2], locs[2][3] - locs[1][3]>>

Parallel(u, v) ==
  /\ u[1] * v[2] = u[2] * v[1]
  /\ u[1] * v[3] = u[3] * v[1]
  /\ u[2] * v[3] = u[3] * v[2]

TickDisplacement(side, clockwise, i) ==
  Displacement(tick_locs(side, call.scale, i, call.offset, clockwise))

\* C8: the displacement of a tick depends only on its named direction:
\* the right-parallel cases ('r' clockwise, 'l' counter-clockwise, 'b'
\* clockwise) are pairwise parallel, the horizontal cases ('r'
\* counter-clockwise, 'l' clockwise) are parallel, no right-parallel
\* displacement is parallel to the left-parallel one ('b'
\* counter-clockwise), and the displacement is the same for every index.
C8_TickDirections ==
  (call.op = "ticks" /\ ret.kind = "None" /\ call.offset * call.scale # 0
     /\ Len(NewDrawn) > 0) =>
    LET I == IndexSet(call.scale + call.multiple, call.multiple)
        D(side, clockwise) == TickDisplacement(side, clockwise, 0)
    IN  /\ \A k \in 1..Len(NewDrawn) :
             Displacement(<<NewDrawn[k].p1, NewDrawn[k].p2>>)
               \in {D(c, call.clockwise) : c \in SelectedSides(call.axis)}
        /\ \A c \in {"r", "l", "b"} : \A cw \in BOOLEAN : \A i \in I :
             TickDisplacement(c, cw, i) = D(c, cw)
        /\ Parallel(D("r", TRUE), D("l", FALSE))
        /\ Parallel(D("r", TRUE), D("b", TRUE))
        /\ Parallel(D("l", FALSE), D("b", TRUE))
        /\ Parallel(D("r", FALSE), D("l", TRUE))
        /\ ~Parallel(D("r", TRUE), D("b", FALSE))
        /\ ~Parallel(D("l", FALSE), D("b", FALSE))
        /\ ~Parallel(D("b", TRUE), D("b", FALSE))

\* the family of a logged line() call: the index i of the family's formula
IsHorizontal(e, s, m) ==
  \E i \in 0..(s + m) : e.p1 = <<0, s - i, i>> /\ e.p2 = <<s - i, 0, i>>
IsLeft(e, s, m) ==
  \E i \in 0..(s + m) : e.p1 = <<0, i, s - i>> /\ e.p2 = <<s - i, i, 0>>
IsRight(e, s, m) ==
  \E i \in 0..(s + m) : e.p1 = <<i, s - i, 0>> /\ e.p2 = <<i, 0, s - i>>

\* the style gridlines is specified to use for a family with override r
FamilyStyle(r) ==
  LET given  == call.kwargs
      common == [k \in DOMAIN given \cup {"linewidth", "linestyle"} |->
                   IF k \in DOMAIN given THEN given[k]
                   ELSE IF k = "linewidth" THEN "0.5" ELSE ":"]
      over   == IF r = 0 THEN EmptyDict ELSE pre.heap[r]
  IN  [k \in DOMAIN common \cup DOMAIN over |->
         IF k \in DOMAIN over THEN over[k] ELSE common[k]]

\* C9: every segment of a family of gridlines carries the style
\* merge(common, override of that family), common being the caller's style
\* with linewidth 0.5 and linestyle ':' filled in only where the caller
\* gave none; another family's override has no part in it.
C9_GridlinesFamilyStyles ==
  call.op = "gridlines" =>
    LET s == call.scale
        m == GridMultiple
    IN  \A k \in 1..Len(NewDrawn) :
          LET e == NewDrawn[k] IN
          /\ NewAx[k].kwargs = e.kwargs
          /\ IsHorizontal(e, s, m) \/ IsLeft(e, s, m) \/ IsRight(e, s, m)
          /\ IsHorizontal(e, s, m) => e.kwargs = FamilyStyle(call.horizontal_kwargs)
          /\ IsLeft(e, s, m) => e.kwargs = FamilyStyle(call.left_kwargs)
          /\ IsRight(e, s, m) => e.kwargs = FamilyStyle(call.right_kwargs)

C9_Witness ==
  /\ call.op = "gridlines"
  /\ call.scale = 2
  /\ call.kwargs = [linewidth |-> "2"]
  /\ call.horizontal_kwargs = 3
  /\ call.left_kwargs = 4
  /\ call.right_kwargs = 0
  /\ Len(NewDrawn) = 8
  /\ NewDrawn[1].kwargs = [linewidth |-> "2", linestyle |-> "-", color |-> "k"]
  /\ NewDrawn[3].kwargs = [linewidth |-> "2", linestyle |-> ":", color |-> "b"]
  /\ NewDrawn[4].kwargs = [linewidth |-> "2", linestyle |-> ":"]

\* C10: every line gridlines draws has an index in [0, scale]: both
\* endpoints of every segment have non-negative components that sum to
\* scale, and the left and right families reach the index scale.
C10_GridlinesWithinSimplex ==
  call.op = "gridlines" =>
    LET s == call.scale
        inside(p) == /\ p[1] >= 0 /\ p[2] >= 0 /\ p[3] >= 0
                     /\ p[1] + p[2] + p[3] = s
    IN  /\ \A k \in 1..Len(NewDrawn) :
             inside(NewDrawn[k].p1) /\ inside(NewDrawn[k].p2)
        /\ CountSegment(<<0, s, 0>>, <<0, s, 0>>) = 1
        /\ CountSegment(<<s, 0, 0>>, <<s, 0, 0>>) = 1
====
